---- MODULE Spec2Model ----
(***************************************************************************)
(* Temperature-index snow model (snow/snow.py) behind its Basic Model      *)
(* Interface facade (snow/bmi_snow.py).                                    *)
(*                                                                         *)
(* Number representation.  The program computes in float64.  The model     *)
(* computes in fixed point: temperatures are integers counting tenths of   *)
(* a degree C (Deci), depths, fluxes, degree-day factors, the              *)
(* precipitation phase and the sine are integers counting thousandths      *)
(* (Milli).  A product of two scaled numbers is rescaled with \div, which  *)
(* rounds toward minus infinity where float64 rounds to nearest.  Times    *)
(* are whole seconds.                                                      *)
(***************************************************************************)
EXTENDS Integers, Sequences, FiniteSets, TLC

VARIABLES
    model,        \* SnowBmi._model: "None" or "Snow"
    values,       \* SnowBmi._values: the variable names bound to arrays
    params,       \* the Snow object's parameters (_rs_method ... _tair_melt_thresh)
    time,         \* Snow._time
    time_step,    \* Snow._time_step
    dayofyear,    \* Snow._dayofyear
    year,         \* Snow._year
    tair_c,       \* the array Snow._tair_c (one element)
    ppt_mm,       \* the array Snow._ppt_mm
    swe_mm,       \* the array Snow._swe_mm
    melt_mm,      \* the array Snow._melt_mm
    call          \* the last facade call: its name, argument, exception and result

vars == <<model, values, params, time, time_step, dayofyear, year,
          tair_c, ppt_mm, swe_mm, melt_mm, call>>

\* The state a caller can observe through the facade.
state == <<model, values, params, time, time_step, dayofyear, year,
           tair_c, ppt_mm, swe_mm, melt_mm>>

-----------------------------------------------------------------------------
(* Bounds of the model *)

\* Update is offered while fewer than MaxSteps whole steps have been taken.
MaxSteps == 2

\* Fractions of a time step are multiples of 1/FracDen.
FracDen == 2

-----------------------------------------------------------------------------
(* Number representation *)

\* Thousandths: the unit of the float arrays and of the factors.
Milli == 1000

\* Tenths of a degree: the unit of temperatures.
Deci == 10

\* round(1000 * np.sin((doy - 81) / 58.09)) for doy = 1 .. 366.
SinTable ==
   << 
      -981, -978, -974, -970, -966, -961, -956, -951, -946, -940, -934, -928,
      -921, -914, -907, -900, -892, -884, -876, -867, -859, -850, -841, -831,
      -821, -812, -801, -791, -780, -769, -758, -747, -735, -724, -712, -699,
      -687, -674, -662, -649, -635, -622, -608, -595, -581, -567, -552, -538,
      -523, -509, -494, -479, -464, -448, -433, -417, -401, -386, -370, -354,
      -338, -321, -305, -288, -272, -255, -239, -222, -205, -188, -171, -154,
      -137, -120, -103, -86, -69, -52, -34, -17, 0, 17, 34, 52,
      69, 86, 103, 120, 137, 154, 171, 188, 205, 222, 239, 255,
      272, 288, 305, 321, 338, 354, 370, 386, 401, 417, 433, 448,
      464, 479, 494, 509, 523, 538, 552, 567, 581, 595, 608, 622,
      635, 649, 662, 674, 687, 699, 712, 724, 735, 747, 758, 769,
      780, 791, 801, 812, 821, 831, 841, 850, 859, 867, 876, 884,
      892, 900, 907, 914, 921, 928, 934, 940, 946, 951, 956, 961,
      966, 970, 974, 978, 981, 984, 987, 990, 992, 994, 996, 997,
      998, 999, 1000, 1000, 1000, 1000, 999, 998, 997, 995, 993, 991,
      989, 986, 983, 980, 976, 972, 968, 963, 959, 954, 948, 943,
      937, 931, 924, 918, 911, 903, 896, 888, 880, 872, 863, 854,
      845, 836, 826, 817, 806, 796, 786, 775, 764, 753, 741, 730,
      718, 706, 693, 681, 668, 655, 642, 629, 615, 602, 588, 574,
      560, 545, 531, 516, 501, 486, 471, 456, 440, 425, 409, 394,
      378, 362, 346, 329, 313, 297, 280, 264, 247, 230, 213, 197,
      180, 163, 146, 129, 112, 94, 77, 60, 43, 26, 9, -9,
      -26, -43, -60, -77, -95, -112, -129, -146, -163, -180, -197, -214,
      -230, -247, -264, -280, -297, -313, -329, -346, -362, -378, -394, -409,
      -425, -441, -456, -471, -486, -501, -516, -531, -545, -560, -574, -588,
      -602, -615, -629, -642, -655, -668, -681, -693, -706, -718, -730, -741,
      -753, -764, -775, -786, -796, -807, -817, -826, -836, -845, -854, -863,
      -872, -880, -888, -896, -903, -911, -918, -924, -931, -937, -943, -948,
      -954, -959, -964, -968, -972, -976, -980, -983, -986, -989, -991, -993,
      -995, -997, -998, -999, -1000, -1000, -1000, -1000, -999, -998, -997, -996,
      -994, -992, -990, -987, -984, -981 >>

SinMilli(doy) == SinTable[doy]

\* Python's builtin min(a, b): b when b < a, otherwise a.
PyMin(a, b) == IF b < a THEN b ELSE a

\* Python's int() of the quotient a / b, b > 0: truncation toward zero.
PyIntQuot(a, b) == IF a >= 0 THEN a \div b ELSE -((-a) \div b)

-----------------------------------------------------------------------------
(* snow.py: solve_snow *)

\* Mutant of PptPhase: the threshold test is strict, so a temperature equal to
\* rs_thresh counts as rain.
PptPhase_strict(temp, rain_snow, rs_thresh, snow_thresh_max, rain_thresh_min) ==
    IF rain_snow = 1
    THEN [exc |-> "none", phase |-> IF temp < rs_thresh THEN 0 ELSE Milli]
    ELSE IF rain_snow = 2
    THEN [exc |-> "none",
          phase |-> IF temp <= snow_thresh_max THEN 0
                    ELSE IF temp >= rain_thresh_min THEN Milli
                    ELSE ((temp - snow_thresh_max) * Milli)
                             \div (rain_thresh_min - snow_thresh_max)]
    ELSE [exc |-> "RuntimeError", phase |-> 0]

\* Lines 51-64: the precipitation phase in thousandths, 0 = snow, Milli = rain;
\* exc is "RuntimeError" when the method is neither 1 nor 2.
PptPhase(temp, rain_snow, rs_thresh, snow_thresh_max, rain_thresh_min) ==
    IF rain_snow = 1
    THEN [exc |-> "none", phase |-> IF temp <= rs_thresh THEN 0 ELSE Milli]
    ELSE IF rain_snow = 2
    THEN [exc |-> "none",
          phase |-> IF temp <= snow_thresh_max THEN 0
                    ELSE IF temp >= rain_thresh_min THEN Milli
                    ELSE ((temp - snow_thresh_max) * Milli)
                             \div (rain_thresh_min - snow_thresh_max)]
    ELSE [exc |-> "RuntimeError", phase |-> 0]

\* Line 74: the seasonal degree-day factor.
DegreeDayFactor(doy, ddf_max, ddf_min) ==
    ((ddf_max + ddf_min) \div 2) + ((SinMilli(doy) * ((ddf_max - ddf_min) \div 2)) \div Milli)

\* Lines 77-80: potential melt.
MeltPot(temp, tair_melt_thresh, ddf) ==
    IF temp > tair_melt_thresh THEN ((temp - tair_melt_thresh) * ddf) \div Deci ELSE 0

\* Mutant of MassBalance: the melt is not bounded by the snowpack.
MassBalance_unbounded(swe1, melt_pot_mm, rainfall_mm) ==
    [swe |-> swe1 - melt_pot_mm, melt |-> melt_pot_mm + rainfall_mm]

\* Lines 83-90: melt bounded by swe, mass balance, rainfall added to the outflow.
\* np.add(0, ..., out=melt) overwrites the melt array: its old content is not read.
MassBalance(swe1, melt_pot_mm, rainfall_mm) ==
    LET melt1 == 0 + PyMin(swe1, melt_pot_mm)
        swe2  == swe1 - melt1
    IN  [swe |-> swe2, melt |-> melt1 + rainfall_mm]

\* The whole function.  The arrays swe and melt are updated in place, so the
\* result carries their contents also when the function raises.
solve_snow(temp, precip, doy, swe, melt, rain_snow, rs_thresh, snow_thresh_max, rain_thresh_min, ddf_max, ddf_min, tair_melt_thresh) ==
    LET p == PptPhase(temp, rain_snow, rs_thresh, snow_thresh_max, rain_thresh_min)
    IN  IF p.exc # "none"
        THEN [exc |-> p.exc, swe |-> swe, melt |-> melt]
        ELSE LET snowfall_mm == ((Milli - p.phase) * precip) \div Milli
                 rainfall_mm == precip - snowfall_mm
                 swe1        == swe + snowfall_mm
                 ddf         == DegreeDayFactor(doy, ddf_max, ddf_min)
                 melt_pot_mm == MeltPot(temp, tair_melt_thresh, ddf)
                 r           == MassBalance(swe1, melt_pot_mm, rainfall_mm)
             IN  [exc |-> "none", swe |-> r.swe, melt |-> r.melt]

-----------------------------------------------------------------------------
(* snow.py: class Snow *)

\* Line 131: the time step set by the constructor, in seconds.
TimeStepInit == 86400

\* Lines 181-184: time_step is a read-only property; the class defines no
\* time_step setter, so an assignment to it raises AttributeError.
HasTimeStepSetter == FALSE

\* Mutant of Clock: day 365 always ends the year.
Clock_no_leap_day(doy, yr) ==
    IF doy >= 365
    THEN [dayofyear |-> 1, year |-> yr + 1]
    ELSE [dayofyear |-> doy + 1, year |-> yr]

\* Mutant of Clock: day 365 is followed by day 366 in every year.
Clock_leap_every_year(doy, yr) ==
    IF doy = 366
    THEN [dayofyear |-> 1, year |-> yr + 1]
    ELSE [dayofyear |-> doy + 1, year |-> yr]

\* Lines 281-291: the calendar transition of one step.
Clock(doy, yr) ==
    IF doy = 365
    THEN IF yr % 4 # 0
         THEN [dayofyear |-> 1, year |-> yr + 1]
         ELSE [dayofyear |-> doy + 1, year |-> yr]
    ELSE IF doy = 366
    THEN [dayofyear |-> 1, year |-> yr + 1]
    ELSE [dayofyear |-> doy + 1, year |-> yr]

\* Mutant of advance_in_time: the time is advanced before the solver is called.
advance_in_time_clock_first(o) ==
    LET r == solve_snow(o.tair, o.ppt, o.dayofyear, o.swe, o.melt,
                        o.params.rs_method, o.params.rs_thresh,
                        o.params.snow_thresh_max, o.params.rain_thresh_min,
                        o.params.ddf_max, o.params.ddf_min,
                        o.params.tair_melt_thresh)
        c == Clock(o.dayofyear, o.year)
    IN  IF r.exc # "none"
        THEN [o EXCEPT !.exc = r.exc, !.swe = r.swe, !.melt = r.melt,
                       !.time = o.time + o.time_step]
        ELSE [o EXCEPT !.exc = "none", !.swe = r.swe, !.melt = r.melt,
                       !.time = o.time + o.time_step,
                       !.dayofyear = c.dayofyear, !.year = c.year]

\* Lines 263-291 on a Snow object o (a record of its fields, with the inputs
\* tair and ppt).  An exception of solve_snow leaves before line 280.
advance_in_time(o) ==
    LET r == solve_snow(o.tair, o.ppt, o.dayofyear, o.swe, o.melt,
                        o.params.rs_method, o.params.rs_thresh,
                        o.params.snow_thresh_max, o.params.rain_thresh_min,
                        o.params.ddf_max, o.params.ddf_min,
                        o.params.tair_melt_thresh)
        c == Clock(o.dayofyear, o.year)
    IN  IF r.exc # "none"
        THEN [o EXCEPT !.exc = r.exc, !.swe = r.swe, !.melt = r.melt]
        ELSE [o EXCEPT !.exc = "none", !.swe = r.swe, !.melt = r.melt,
                       !.time = o.time + o.time_step,
                       !.dayofyear = c.dayofyear, !.year = c.year]

-----------------------------------------------------------------------------
(* bmi_snow.py: class SnowBmi *)

PptName  == "atmosphere_water__precipitation_leq-volume_flux"
TairName == "land_surface_air__temperature"
SweName  == "snowpack__liquid-equivalent_depth"
MeltName == "snowpack__melt_volume_flux"

\* Lines 49-52: the names initialize() binds in _values.
VarNames == {PptName, TairName, SweName, MeltName}

\* The Snow object behind _model, with no exception pending.
Obj == [exc |-> "none", params |-> params, time |-> time, time_step |-> time_step,
        dayofyear |-> dayofyear, year |-> year,
        tair |-> tair_c, ppt |-> ppt_mm, swe |-> swe_mm, melt |-> melt_mm]

\* The fields of object o written back to the state.
Install(o) ==
    /\ time' = o.time
    /\ time_step' = o.time_step
    /\ dayofyear' = o.dayofyear
    /\ year' = o.year
    /\ swe_mm' = o.swe
    /\ melt_mm' = o.melt

\* Lines 59-61 on object o.
update(o) == advance_in_time(o)

\* Lines 71-74 on object o, for the fraction num / FracDen.  Line 72 assigns to
\* Snow.time_step; line 74 is reached only when lines 72 and 73 do not raise.
update_frac(o, num) ==
    IF ~HasTimeStepSetter
    THEN [o EXCEPT !.exc = "AttributeError_no_setter"]
    ELSE LET r == update([o EXCEPT !.time_step = (num * o.time_step) \div FracDen])
         IN  IF r.exc # "none" THEN r ELSE [r EXCEPT !.time_step = o.time_step]

\* Lines 86-87: k calls of update(), left at the first exception.
RECURSIVE RunSteps(_, _)
RunSteps(o, k) ==
    IF k <= 0 THEN o
    ELSE LET r == update(o)
         IN  IF r.exc # "none" THEN r ELSE RunSteps(r, k - 1)

\* Lines 84-88 on object o: n_steps = (then - time) / time_step, int(n_steps)
\* whole steps, then update_frac(n_steps - int(n_steps)).
update_until(o, then) ==
    LET whole == PyIntQuot(then - o.time, o.time_step)
        rest  == (then - o.time) - whole * o.time_step
        r     == RunSteps(o, whole)
    IN  IF r.exc # "none" THEN r
        ELSE update_frac(r, (rest * FracDen) \div o.time_step)

-----------------------------------------------------------------------------
(* Inputs *)

\* snow.py lines 104-107: the constructor's defaults, in the model's units.
Default ==
    [rs_method |-> 1, rs_thresh |-> 25, snow_thresh_max |-> 15, rain_thresh_min |-> 45,
     ddf_max |-> 1000, ddf_min |-> 0, tair_melt_thresh |-> 10,
     swe_init |-> 0, dayofyear |-> 274, year |-> 2016]

\* The configurations initialize() is given: the defaults, the two methods at
\* the spring equinox and at the end of a common and of a leap year, an
\* unknown method, and degree-day factors out of order and negative.
Configs ==
    { Default,
      [Default EXCEPT !.swe_init = 10000, !.dayofyear = 81],
      [Default EXCEPT !.swe_init = 1000, !.dayofyear = 81],
      [Default EXCEPT !.rs_method = 2, !.swe_init = 1000, !.dayofyear = 364, !.year = 2015],
      [Default EXCEPT !.rs_method = 2, !.dayofyear = 365, !.year = 2016],
      [Default EXCEPT !.rs_method = 3, !.swe_init = 1000],
      [Default EXCEPT !.ddf_max = 0, !.ddf_min = 1000, !.swe_init = 1000, !.dayofyear = 81],
      [Default EXCEPT !.ddf_max = 0, !.ddf_min = -1000, !.swe_init = 1000, !.dayofyear = 81] }

\* The parameters the constructor stores (lines 122-128).
ParamsOf(cfg) ==
    [rs_method |-> cfg.rs_method, rs_thresh |-> cfg.rs_thresh,
     snow_thresh_max |-> cfg.snow_thresh_max, rain_thresh_min |-> cfg.rain_thresh_min,
     ddf_max |-> cfg.ddf_max, ddf_min |-> cfg.ddf_min,
     tair_melt_thresh |-> cfg.tair_melt_thresh]

\* The values a caller writes to a variable.
InputValues(name) ==
    IF name = TairName THEN {0, 25, 50}
    ELSE IF name = PptName THEN {0, 1000}
    ELSE {0}

\* The arrays a caller passes as src: one element, or two (the wrong shape).
SrcArrays(name) == { <<v>> : v \in InputValues(name) } \cup { <<0, 0>> }

\* The indices a caller passes: 0 is the only element of an array of size 1.
Indices == {0, 1}

\* The target times of update_until.
Targets == { (k * TimeStepInit) \div FracDen : k \in 0 .. (MaxSteps * FracDen) }

\* The fractions of update_frac, as numerators over FracDen.
Fractions == 0 .. FracDen

-----------------------------------------------------------------------------
(* The state machine *)

Called(op, name, arg, exc, ret) ==
    call' = [op |-> op, name |-> name, arg |-> arg, exc |-> exc, ret |-> ret]

\* bmi_snow.py lines 20-31: SnowBmi() before initialize().
Init ==
    /\ model = "None"
    /\ values = {}
    /\ params = ParamsOf(Default)
    /\ time = 0
    /\ time_step = TimeStepInit
    /\ dayofyear = Default.dayofyear
    /\ year = Default.year
    /\ tair_c = 0
    /\ ppt_mm = 0
    /\ swe_mm = 0
    /\ melt_mm = 0
    /\ call = [op |-> "__init__", name |-> "", arg |-> <<>>, exc |-> "none", ret |-> <<>>]

\* bmi_snow.py lines 41-57 with snow.py lines 122-141: a new Snow object from
\* a configuration, and _values bound to its arrays.
Initialize ==
    \E cfg \in Configs :
        /\ model' = "Snow"
        /\ values' = VarNames
        /\ params' = ParamsOf(cfg)
        /\ time' = 0
        /\ time_step' = TimeStepInit
        /\ dayofyear' = cfg.dayofyear
        /\ year' = cfg.year
        /\ tair_c' = 0
        /\ ppt_mm' = 0
        /\ swe_mm' = cfg.swe_init
        /\ melt_mm' = 0
        /\ Called("initialize", "", <<>>, "none", <<>>)

\* bmi_snow.py lines 59-61.  self._model.advance_in_time raises AttributeError
\* when _model is None.
Update ==
    IF model = "None"
    THEN /\ Called("update", "", <<>>, "AttributeError_NoneType", <<>>)
         /\ UNCHANGED state
    ELSE /\ time < MaxSteps * TimeStepInit
         /\ LET r == update(Obj)
            IN  /\ Install(r)
                /\ Called("update", "", <<>>, r.exc, <<>>)
         /\ UNCHANGED <<model, values, params, tair_c, ppt_mm>>

\* bmi_snow.py lines 63-74.  get_time_step (line 71) raises AttributeError
\* when _model is None.
UpdateFrac ==
    \E num \in Fractions :
        IF model = "None"
        THEN /\ Called("update_frac", "", <<num>>, "AttributeError_NoneType", <<>>)
             /\ UNCHANGED state
        ELSE /\ time < MaxSteps * TimeStepInit
             /\ LET r == update_frac(Obj, num)
                IN  /\ Install(r)
                    /\ Called("update_frac", "", <<num>>, r.exc, <<>>)
             /\ UNCHANGED <<model, values, params, tair_c, ppt_mm>>

\* bmi_snow.py lines 76-88.  get_current_time (line 84) raises AttributeError
\* when _model is None.
UpdateUntil ==
    \E then \in Targets :
        IF model = "None"
        THEN /\ Called("update_until", "", <<then>>, "AttributeError_NoneType", <<>>)
             /\ UNCHANGED state
        ELSE /\ LET r == update_until(Obj, then)
                IN  /\ Install(r)
                    /\ Called("update_until", "", <<then>>, r.exc, <<>>)
             /\ UNCHANGED <<model, values, params, tair_c, ppt_mm>>

\* bmi_snow.py lines 90-92: only _model is released; _values keeps the arrays.
Finalize ==
    /\ model' = "None"
    /\ Called("finalize", "", <<>>, "none", <<>>)
    /\ UNCHANGED <<values, params, time, time_step, dayofyear, year,
                   tair_c, ppt_mm, swe_mm, melt_mm>>

\* The array _values[name] (lines 49-52).
ArrayOf(name) ==
    IF name = PptName THEN ppt_mm
    ELSE IF name = TairName THEN tair_c
    ELSE IF name = SweName THEN swe_mm
    ELSE melt_mm

\* Mutant of WriteArray: a write to the snowpack also overwrites the melt flux.
WriteArray_clobber(name, v) ==
    /\ ppt_mm'  = IF name = PptName  THEN v ELSE ppt_mm
    /\ tair_c'  = IF name = TairName THEN v ELSE tair_c
    /\ swe_mm'  = IF name = SweName  THEN v ELSE swe_mm
    /\ melt_mm' = IF name \in {MeltName, SweName} THEN v ELSE melt_mm

\* The array _values[name] holding v afterwards, the other arrays as they are.
WriteArray(name, v) ==
    /\ ppt_mm'  = IF name = PptName  THEN v ELSE ppt_mm
    /\ tair_c'  = IF name = TairName THEN v ELSE tair_c
    /\ swe_mm'  = IF name = SweName  THEN v ELSE swe_mm
    /\ melt_mm' = IF name = MeltName THEN v ELSE melt_mm

\* bmi_snow.py lines 194-207: self._values[var_name], KeyError when not bound.
GetValuePtr ==
    \E name \in VarNames :
        /\ IF name \in values
           THEN Called("get_value_ptr", name, <<>>, "none", <<ArrayOf(name)>>)
           ELSE Called("get_value_ptr", name, <<>>, "KeyError", <<>>)
        /\ UNCHANGED state

\* bmi_snow.py lines 209-225: the array copied into dest.
GetValue ==
    \E name \in VarNames :
        /\ IF name \in values
           THEN Called("get_value", name, <<>>, "none", <<ArrayOf(name)>>)
           ELSE Called("get_value", name, <<>>, "KeyError", <<>>)
        /\ UNCHANGED state

\* bmi_snow.py lines 227-245: take(indices) raises IndexError out of range.
GetValueAtIndices ==
    \E name \in VarNames, ind \in Indices :
        /\ IF name \notin values
           THEN Called("get_value_at_indices", name, <<ind>>, "KeyError", <<>>)
           ELSE IF ind # 0
           THEN Called("get_value_at_indices", name, <<ind>>, "IndexError", <<>>)
           ELSE Called("get_value_at_indices", name, <<ind>>, "none", <<ArrayOf(name)>>)
        /\ UNCHANGED state

\* bmi_snow.py lines 247-259: val[:] = src.reshape(val.shape); reshape raises
\* ValueError when src does not have one element.
SetValue ==
    \E name \in VarNames :
        \E src \in SrcArrays(name) :
            IF name \notin values
            THEN /\ Called("set_value", name, src, "KeyError", <<>>)
                 /\ UNCHANGED state
            ELSE IF Len(src) # 1
            THEN /\ Called("set_value", name, src, "ValueError", <<>>)
                 /\ UNCHANGED state
            ELSE /\ WriteArray(name, src[1])
                 /\ Called("set_value", name, src, "none", <<>>)
                 /\ UNCHANGED <<model, values, params, time, time_step, dayofyear, year>>

\* bmi_snow.py lines 261-274: val.flat[inds] = src raises IndexError out of range.
SetValueAtIndices ==
    \E name \in VarNames, ind \in Indices :
        \E v \in InputValues(name) :
            IF name \notin values
            THEN /\ Called("set_value_at_indices", name, <<ind>>, "KeyError", <<>>)
                 /\ UNCHANGED state
            ELSE IF ind # 0
            THEN /\ Called("set_value_at_indices", name, <<ind>>, "IndexError", <<>>)
                 /\ UNCHANGED state
            ELSE /\ WriteArray(name, v)
                 /\ Called("set_value_at_indices", name, <<ind>>, "none", <<>>)
                 /\ UNCHANGED <<model, values, params, time, time_step, dayofyear, year>>

\* bmi_snow.py lines 327-328.
GetCurrentTime ==
    /\ IF model = "None"
       THEN Called("get_current_time", "", <<>>, "AttributeError_NoneType", <<>>)
       ELSE Called("get_current_time", "", <<>>, "none", <<time>>)
    /\ UNCHANGED state

\* bmi_snow.py lines 330-331.
GetTimeStep ==
    /\ IF model = "None"
       THEN Called("get_time_step", "", <<>>, "AttributeError_NoneType", <<>>)
       ELSE Called("get_time_step", "", <<>>, "none", <<time_step>>)
    /\ UNCHANGED state

Next ==
    \/ Initialize
    \/ Update
    \/ UpdateFrac
    \/ UpdateUntil
    \/ Finalize
    \/ GetValuePtr
    \/ GetValue
    \/ GetValueAtIndices
    \/ SetValue
    \/ SetValueAtIndices
    \/ GetCurrentTime
    \/ GetTimeStep

Spec == Init /\ [][Next]_vars

-----------------------------------------------------------------------------
(* The calendar over whole years: a model initialized at a valid date and
   advanced by update() alone, under constant forcing *)

\* update() is offered while fewer than MaxDays steps have been taken.
MaxDays == 800

\* The dates (dayofyear, year of snow.py lines 132-133) the runs start at: the
\* first and the last day of a common year, the constructor's default, and
\* the last day of a leap year.
CalendarStarts ==
    { [dayofyear |-> 1, year |-> 2015],
      [dayofyear |-> 365, year |-> 2015],
      [dayofyear |-> Default.dayofyear, year |-> Default.year],
      [dayofyear |-> 366, year |-> 2016] }

\* bmi_snow.py lines 41-57 with snow.py lines 122-141: initialize() with the
\* default parameters and a start date, then set_value of a temperature and
\* a precipitation that stay for the run.
InitCalendar ==
    /\ model = "Snow"
    /\ values = VarNames
    /\ params = ParamsOf(Default)
    /\ time = 0
    /\ time_step = TimeStepInit
    /\ \E s \in CalendarStarts : dayofyear = s.dayofyear /\ year = s.year
    /\ tair_c \in {0, 50}
    /\ ppt_mm \in {0, 1000}
    /\ swe_mm = Default.swe_init
    /\ melt_mm = 0
    /\ call = [op |-> "initialize", name |-> "", arg |-> <<>>, exc |-> "none", ret |-> <<>>]

\* bmi_snow.py lines 59-61 on an initialized model.
UpdateDay ==
    /\ model = "Snow"
    /\ time < MaxDays * TimeStepInit
    /\ LET r == update(Obj)
       IN  /\ Install(r)
           /\ Called("update", "", <<>>, r.exc, <<>>)
    /\ UNCHANGED <<model, values, params, tair_c, ppt_mm>>

NextCalendar == UpdateDay

SpecCalendar == InitCalendar /\ [][NextCalendar]_vars

-----------------------------------------------------------------------------
(* Vocabulary of the properties *)

\* The error kind of the design for an exception of the program: the
\* RuntimeError of solve_snow is the only parameter check, an attribute
\* access on a _model that is None and a name missing from _values are what
\* an uninitialized model raises.  No raise of the program tests a target
\* time, and the remaining exceptions belong to no error kind.
ErrorKind(exc) ==
    IF exc = "none" THEN "none"
    ELSE IF exc = "RuntimeError" THEN "InvalidParameter"
    ELSE IF exc \in {"AttributeError_NoneType", "KeyError"} THEN "NotInitialized"
    ELSE "other"

\* Parameters in their valid range: a known method, ordered non-negative
\* degree-day factors, and a ramp with snow_max below rain_min.
ValidParams(p) ==
    /\ p.rs_method \in {1, 2}
    /\ 0 <= p.ddf_min
    /\ p.ddf_min <= p.ddf_max
    /\ (p.rs_method = 2 => p.snow_thresh_max < p.rain_thresh_min)

\* The operations that advance the model.
StepOps == {"update", "update_frac", "update_until"}

\* This step is a call that advanced the model by at least one step.
Stepped == call'.op \in StepOps /\ time' # time

\* This step is one completed call of update().
UpdateDone == call'.op = "update" /\ call'.exc = "none"

-----------------------------------------------------------------------------
(* Properties *)

\* C1: mass non-negativity.  From swe >= 0, with valid parameters and
\* precipitation >= 0, every call that advances the model leaves swe >= 0 and
\* melt >= 0.
C1_MassNonNegative ==
    [][(/\ model = "Snow"
        /\ ValidParams(params)
        /\ swe_mm >= 0
        /\ ppt_mm >= 0
        /\ Stepped) => (swe_mm' >= 0 /\ melt_mm' >= 0)]_vars

\* C1 witness: a completed step with valid parameters in which the melt was
\* cut to the snowpack: no snow is left and the outflow is positive.
C1_Witness ==
    /\ call.op = "update"
    /\ call.exc = "none"
    /\ ValidParams(params)
    /\ ppt_mm = 0
    /\ swe_mm = 0
    /\ melt_mm > 0

\* C2: update_until(then) with then >= time returns normally and leaves the
\* current time equal to then.
C2_UntilLandsOnTarget ==
    [][(/\ model = "Snow"
        /\ ValidParams(params)
        /\ call'.op = "update_until"
        /\ call'.arg[1] >= time) => (call'.exc = "none" /\ time' = call'.arg[1])]_vars

\* C3: a call of update() either completes, with the time and the calendar
\* advanced, or raises with the state as it was; with a method that is
\* neither 1 nor 2 it raises the parameter error and changes nothing.
C3_StepAtomic ==
    [][call'.op = "update" =>
         /\ \/ /\ call'.exc = "none"
               /\ time' = time + time_step
               /\ <<dayofyear', year'>> # <<dayofyear, year>>
            \/ /\ call'.exc # "none"
               /\ UNCHANGED state
         /\ (model = "Snow" /\ params.rs_method \notin {1, 2}) =>
                /\ ErrorKind(call'.exc) = "InvalidParameter"
                /\ UNCHANGED state]_vars

\* C3 witness: update() has raised on a model with an unknown method, with
\* precipitation pending on a snowpack.
C3_Witness ==
    /\ call.op = "update"
    /\ call.exc = "RuntimeError"
    /\ model = "Snow"
    /\ params.rs_method = 3
    /\ ppt_mm > 0
    /\ swe_mm > 0

\* C4: on a model that is not initialized (never, or finalized) every
\* operation fails as not initialized, returns nothing and changes nothing.
C4_NotInitializedFails ==
    [][(/\ model = "None"
        /\ call'.op \in {"update", "update_frac", "update_until", "get_current_time",
                         "get_time_step", "get_value", "get_value_ptr", "set_value"})
       => (/\ ErrorKind(call'.exc) = "NotInitialized"
           /\ call'.ret = <<>>
           /\ UNCHANGED state)]_vars

\* C5: update_until(then) with then < time fails as an invalid target and
\* changes nothing.
C5_UntilRejectsPastTarget ==
    [][(/\ model = "Snow"
        /\ call'.op = "update_until"
        /\ call'.arg[1] < time)
       => (/\ ErrorKind(call'.exc) = "InvalidTarget"
           /\ UNCHANGED state)]_vars

\* C6: a completed update() advances the time by time_step and moves the
\* calendar by one day: 365 of a year not divisible by 4 and 366 go to day 1
\* of the next year, 365 of a year divisible by 4 goes to 366.
C6_CalendarRollover ==
    [][UpdateDone =>
         /\ time' = time + time_step
         /\ (dayofyear = 365 /\ year % 4 # 0) => (dayofyear' = 1 /\ year' = year + 1)
         /\ (dayofyear = 365 /\ year % 4 = 0) => (dayofyear' = 366 /\ year' = year)
         /\ (dayofyear = 366) => (dayofyear' = 1 /\ year' = year + 1)
         /\ (dayofyear \notin {365, 366}) => (dayofyear' = dayofyear + 1 /\ year' = year)]_vars

\* C6 witness: two completed steps from day 365 of 2016 have passed day 366
\* and reached day 1 of 2017.
C6_Witness ==
    /\ call.op = "update"
    /\ call.exc = "none"
    /\ dayofyear = 1
    /\ year = 2017
    /\ time = 2 * time_step

\* C7: update_frac(f) with 0 <= f <= 1 completes a step that advances the
\* time by f * time_step and leaves time_step as it was.
C7_FracStepsAndRestores ==
    [][(/\ model = "Snow"
        /\ ValidParams(params)
        /\ call'.op = "update_frac")
       => (/\ call'.exc = "none"
           /\ time' = time + ((call'.arg[1] * time_step) \div FracDen)
           /\ time_step' = time_step)]_vars

\* C8: degree-day factors with ddf_min > ddf_max are rejected with the
\* parameter error, by the construction and by update(), with no change of state.
C8_RangeRejected ==
    [][(\/ call'.op = "initialize" /\ params'.ddf_min > params'.ddf_max
        \/ call'.op = "update" /\ model = "Snow" /\ params.ddf_min > params.ddf_max)
       => (/\ ErrorKind(call'.exc) = "InvalidParameter"
           /\ UNCHANGED state)]_vars

\* C9: the result of one completed update() from swe >= 0 and precipitation
\* >= 0: swe' = swe + snowfall - m and melt' = m + rainfall with
\* m = min(swe + snowfall, max(0, temperature - tair_melt_thresh) * ddf), which
\* does not read the previous melt; and the two worked examples at day 81.
C9_SolverResult ==
    [][(UpdateDone /\ swe_mm >= 0 /\ ppt_mm >= 0) =>
         LET p        == params
             phase    == IF p.rs_method = 1
                         THEN (IF tair_c <= p.rs_thresh THEN 0 ELSE Milli)
                         ELSE IF tair_c <= p.snow_thresh_max THEN 0
                         ELSE IF tair_c >= p.rain_thresh_min THEN Milli
                         ELSE ((tair_c - p.snow_thresh_max) * Milli)
                                  \div (p.rain_thresh_min - p.snow_thresh_max)
             snowfall == ((Milli - phase) * ppt_mm) \div Milli
             rainfall == ppt_mm - snowfall
             excess   == IF tair_c - p.tair_melt_thresh > 0
                         THEN tair_c - p.tair_melt_thresh ELSE 0
             pot      == (excess * DegreeDayFactor(dayofyear, p.ddf_max, p.ddf_min)) \div Deci
             m        == IF swe_mm + snowfall <= pot THEN swe_mm + snowfall ELSE pot
             example  == /\ p = ParamsOf(Default)
                         /\ dayofyear = 81
                         /\ tair_c = 50
                         /\ ppt_mm = 0
         IN  /\ swe_mm' = swe_mm + snowfall - m
             /\ melt_mm' = m + rainfall
             /\ melt_mm' - rainfall <= swe_mm + snowfall
             /\ (example /\ swe_mm = 10000) => (swe_mm' = 8000 /\ melt_mm' = 2000)
             /\ (example /\ swe_mm = 1000) => (swe_mm' = 0 /\ melt_mm' = 1000)]_vars

\* C9 witness: the first worked example has run: from day 81 with the default
\* parameters, 10 mm of snow became 8 mm and 2 mm of melt.
C9_Witness ==
    /\ call.op = "update"
    /\ call.exc = "none"
    /\ params = ParamsOf(Default)
    /\ dayofyear = 82
    /\ tair_c = 50
    /\ ppt_mm = 0
    /\ swe_mm = 8000
    /\ melt_mm = 2000

\* C10 as stated: swe and melt change only in the operations that advance the
\* model (and when initialize() creates the state).
C10_OnlySolverWrites ==
    [][(swe_mm' # swe_mm \/ melt_mm' # melt_mm)
       => call'.op \in StepOps \cup {"initialize"}]_vars

\* C10 as amended: swe (melt) changes only in the operations that advance
\* the model, in initialize(), and in set_value or set_value_at_indices called
\* with the name of swe (melt); a set changes no array but the one it names,
\* and the get operations change nothing.
C10_WritesByName ==
    [][/\ swe_mm' # swe_mm =>
            \/ call'.op \in StepOps \cup {"initialize"}
            \/ call'.op \in {"set_value", "set_value_at_indices"} /\ call'.name = SweName
       /\ melt_mm' # melt_mm =>
            \/ call'.op \in StepOps \cup {"initialize"}
            \/ call'.op \in {"set_value", "set_value_at_indices"} /\ call'.name = MeltName
       /\ call'.op \in {"set_value", "set_value_at_indices"} =>
            \A n \in VarNames \ {call'.name} : ArrayOf(n)' = ArrayOf(n)
       /\ call'.op \in {"get_value", "get_value_at_indices", "get_value_ptr"} =>
            UNCHANGED state]_vars

\* C10 witness: set_value on the name of swe has emptied a snowpack that no
\* step has touched.
C10_Witness ==
    /\ call.op = "set_value"
    /\ call.name = SweName
    /\ call.exc = "none"
    /\ model = "Snow"
    /\ time = 0
    /\ dayofyear = 81
    /\ swe_mm = 0

\* The length of a year by the rule of four.
DaysIn(yr) == IF yr % 4 = 0 THEN 366 ELSE 365

\* The first year a run starts in.
FirstYear == CHOOSE y \in { s.year : s \in CalendarStarts } :
                 \A s \in CalendarStarts : y <= s.year

\* The days between day 1 of FirstYear and the date (doy, yr).
RECURSIVE DaysBefore(_)
DaysBefore(yr) == IF yr <= FirstYear THEN 0 ELSE DaysBefore(yr - 1) + DaysIn(yr - 1)

DayNumber(doy, yr) == DaysBefore(yr) + doy - 1

\* A valid date: day 1 .. 365, or day 366 of a year divisible by 4.
ValidDate(doy, yr) == 1 <= doy /\ doy <= 366 /\ (doy = 366 => yr % 4 = 0)

\* C11: from a valid start date the date stays valid at every step (day 366
\* only in a year divisible by 4), the year never decreases, and it grows,
\* by exactly 1, exactly when the year's last day ends: the days counted
\* from a start date equal the steps taken, so a year divisible by 4 takes 366
\* consecutive steps and any other year 365.
C11_CalendarValid ==
    [][/\ ValidDate(dayofyear, year)
       /\ ValidDate(dayofyear', year')
       /\ year' >= year
       /\ year' # year => (year' = year + 1 /\ dayofyear = DaysIn(year) /\ dayofyear' = 1)
       /\ \E s \in CalendarStarts :
              DayNumber(dayofyear', year')
                  = DayNumber(s.dayofyear, s.year) + (time' \div time_step)]_vars

\* C11 witness: 731 steps from day 1 of 2015 have passed the 365 days of 2015
\* and the 366 days of 2016 and stand at day 1 of 2017.
C11_Witness ==
    /\ call.op = "update"
    /\ call.exc = "none"
    /\ time = (365 + 366) * time_step
    /\ dayofyear = 1
    /\ year = 2017

====
